---- MODULE Spec2Model ----
(***************************************************************************)
(* A model of src/process.py: the budgeted tree walker that flattens a     *)
(* directory tree into category folders.                                   *)
(*                                                                         *)
(* A file name is the sequence of its dot-separated components             *)
(* ("x.scm.bak" is <<"x", "scm", "bak">>).  A pathlib path is a record     *)
(* [abs, parts]: whether it is absolute, and its sequence of names; two    *)
(* paths are equal as pathlib compares them, part by part, without         *)
(* resolving.  The filesystem is a record [dirs, files]: the set of        *)
(* absolute directory paths (sequences of names) and a function from the   *)
(* absolute path of each regular file to [id, data], the file's identity   *)
(* (its inode) and its bytes.                                              *)
(***************************************************************************)
EXTENDS Integers, Sequences, FiniteSets, TLC

VARIABLES
    fs,          \* the filesystem
    cwd,         \* the process working directory (absolute)
    directory,   \* --directory, as pathlib holds it
    max_steps,   \* --max-steps
    steps,       \* process_directory's step counter
    pc,          \* "idle" | "walk" | "files"
    stack,       \* os.walk's pending directories, innermost frame last
    root_path,   \* the directory os.walk last yielded
    dirs,        \* its subdirectories still to descend into (after the filter)
    todo,        \* its listed files not yet iterated
    runs,        \* invocations of process_directory started so far
    result,      \* how the last invocation ended
    nextId,      \* identity given to the next file an extraction creates
    fs0,         \* history: the filesystem when the current run started
    counted,     \* history: ids of the files counted against the budget this run
    dup,         \* history: ids counted more than once this run
    made,        \* history: directories extract_archive created this run
    born,        \* history: ids of files extracted into them this run
    sorted,      \* history: ids move_file put into a category directory in an earlier run
    placed,      \* history: the same for the current run
    ev           \* history: what the last step did, when it visited a file

vars == <<fs, cwd, directory, max_steps, steps, pc, stack, root_path, dirs, todo,
          runs, result, nextId, fs0, counted, dup, made, born, sorted, placed, ev>>

(***************************** bounds ***************************************)
\* files in the walked tree at the start
MaxFiles == 2
\* --max-steps ranges over 1..MaxBudget
MaxBudget == 2
\* invocations of process_directory, one after the other
MaxRuns == 2
\* the values uuid4's six-character prefix takes in the model; whether a name
\* made with it is free or taken depends on what the directory already holds
Tokens == {"t1"}

(************************* policy tables ************************************)
Name(s) == <<s>>
RelPath(parts) == [abs |-> FALSE, parts |-> parts]
AbsPath(parts) == [abs |-> TRUE, parts |-> parts]

EXTENSION_MAP ==
    [e \in {"scm"} |-> RelPath(<<Name("scm")>>)] @@
    [e \in {"scx"} |-> RelPath(<<Name("scx")>>)] @@
    [e \in {"w3m"} |-> RelPath(<<Name("w3m")>>)] @@
    [e \in {"w3x"} |-> RelPath(<<Name("w3x")>>)] @@
    [e \in {"pud"} |-> RelPath(<<Name("pud")>>)] @@
    [e \in {"bac0", "bac1", "bac2", "bac3", "bac4", "bac5", "bac6", "bac7", "bac8",
            "bac9", "bac10", "bac11", "bac12", "bac13", "bac14", "bac15", "bac16",
            "bac17", "bac18", "bac19"} |-> RelPath(<<Name("bac")>>)] @@
    [e \in {"trg"} |-> RelPath(<<Name("trg")>>)] @@
    [e \in {"gif", "jpg", "pcx", "png"} |-> RelPath(<<Name("img")>>)] @@
    [e \in {"mp3", "wav"} |-> RelPath(<<Name("snd")>>)] @@
    [e \in {"htm", "lwp", "rtf", "txt", "txt~", "doc", "docx", "nfo", "pdf", "diz"}
        |-> RelPath(<<Name("text")>>)] @@
    [e \in {"dds"} |-> RelPath(<<Name("dds")>>)] @@
    [e \in {"bmp"} |-> RelPath(<<Name("bmp")>>)] @@
    [e \in {"scn"} |-> RelPath(<<Name("scn")>>)] @@
    [e \in {"tga"} |-> RelPath(<<Name("tga")>>)] @@
    [e \in {"mpq", "autosave"} |-> RelPath(<<Name("unknown-mpq")>>)]

ARCHIVE_EXTENSIONS == {".zip", ".7z", ".rar", ".001"}

BLACKLISTED_DIRECTORIES == {EXTENSION_MAP[e] : e \in DOMAIN EXTENSION_MAP}

DELETE_FILETYPES ==
    {".1", ".bsp", ".db", ".exe", ".ex_", ".img", ".ini", ".ins", ".iss", ".lev",
     ".lft", ".lib", ".log", ".lpl", ".map", ".pkg", ".rep", ".reg", ".rmf", ".url",
     ".nif", ".dll", ".graal", ".sqlite", ".torrent", ".ttf", ".ico", ".esp", ".ocx",
     ".chk", ".unt", ".lst", ".ani", ".dat", ".chr", ".opt", ".snd", ".rsrc", ".bin",
     ".xml"}

USELESS_EXTENSIONS == {".bak", ".part"}

(************************* names and paths **********************************)
\* str.lower(), on the strings of the model that hold an upper-case letter
Lower(s) ==
    CASE s = "SCM" -> "scm"
      [] s = ".SCM" -> ".scm"
      [] s = "ASCII text" -> "ascii text"
      [] s = "PNG image data" -> "png image data"
      [] s = "MoPaQ (MPQ) archive, version 1" -> "mopaq (mpq) archive, version 1"
      [] s = "Apple DiskCopy 4.2 image" -> "apple diskcopy 4.2 image"
      [] OTHER -> s

\* PurePath.suffix of a name: the last component with its dot, "" when there is none
Suffix(name) == IF Len(name) > 1 THEN "." \o name[Len(name)] ELSE ""
\* PurePath.stem of a name: the name without its suffix
Stem(name) == IF Len(name) > 1 THEN SubSeq(name, 1, Len(name) - 1) ELSE name
\* "<name>_<token>": the token joins the last component of the name
WithToken(name, tok) == [name EXCEPT ![Len(name)] = @ \o "_" \o tok]

PathName(p) == p.parts[Len(p.parts)]
PathParent(p) == [p EXCEPT !.parts = SubSeq(@, 1, Len(@) - 1)]
PathJoin(p, name) == [p EXCEPT !.parts = Append(@, name)]
\* Path.resolve(): an absolute path stays, a relative one is taken from cwd
Resolve(p, wd) == IF p.abs THEN p.parts ELSE wd \o p.parts

get_useful_extension(name) ==
    LET RECURSIVE strip(_)
        strip(n) == IF Lower(Suffix(n)) \in USELESS_EXTENSIONS THEN strip(Stem(n)) ELSE n
        n == strip(name)
    IN  IF Len(n) > 1 THEN Lower(n[Len(n)]) ELSE ""

(***************************** filesystem ***********************************)
IsFile(F, p) == p \in DOMAIN F.files
IsDir(F, p) == p \in F.dirs
Exists(F, p) == IsFile(F, p) \/ IsDir(F, p)
Prefixes(p) == {SubSeq(p, 1, i) : i \in 0..Len(p)}
IsUnder(p, d) == Len(p) > Len(d) /\ SubSeq(p, 1, Len(d)) = d
ParentOf(p) == SubSeq(p, 1, Len(p) - 1)
BaseOf(p) == p[Len(p)]
\* the names os.scandir lists in directory d
SubdirNames(F, d) == {BaseOf(p) : p \in {q \in F.dirs : Len(q) > 0 /\ ParentOf(q) = d}}
FileNames(F, d) == {BaseOf(p) : p \in {q \in DOMAIN F.files : ParentOf(q) = d}}
IsEmptyDir(F, d) == SubdirNames(F, d) = {} /\ FileNames(F, d) = {}

Restrict(f, S) == [x \in S |-> f[x]]
Mkdir(F, d) == [F EXCEPT !.dirs = @ \cup Prefixes(d)]
Unlink(F, p) == [F EXCEPT !.files = Restrict(@, DOMAIN @ \ {p})]
Rmdir(F, d) == [F EXCEPT !.dirs = @ \ {d}]
WriteFile(F, p, rec) ==
    [F EXCEPT !.files = [q \in DOMAIN @ \cup {p} |-> IF q = p THEN rec ELSE @[q]]]
\* shutil.move: into dst when dst is a directory, else os.rename, which replaces dst
ShutilMove(F, src, dst) ==
    LET real == IF IsDir(F, dst) THEN Append(dst, BaseOf(src)) ELSE dst
    IN  WriteFile(Unlink(F, src), real, F.files[src])

compute_sha256(F, p) == <<"sha256", F.files[p].data>>

(*************************** the operations *********************************)
\* destination.with_name(destination.stem + "_<token>" + destination.suffix)
RenameWithToken(name, tok) ==
    IF Len(name) > 1 THEN [name EXCEPT ![Len(name) - 1] = @ \o "_" \o tok]
    ELSE WithToken(name, tok)

\* which branch of move_file a call takes
move_branch(F, wd, file_path, target_dir) ==
    LET F1 == Mkdir(F, Resolve(target_dir, wd))
        src == Resolve(file_path, wd)
        dst == Resolve(PathJoin(target_dir, PathName(file_path)), wd)
    IN  IF src = dst THEN "skipped"
        ELSE IF Exists(F1, dst)
             THEN IF IsDir(F1, dst) THEN "raised"
                  ELSE IF compute_sha256(F1, src) = compute_sha256(F1, dst)
                       THEN "deduplicated" ELSE "renamed"
             ELSE "moved"

\* move_file without the test that the file is already in place
move_file_unchecked(F, wd, file_path, target_dir, tok) ==
    LET F1 == Mkdir(F, Resolve(target_dir, wd))
        src == Resolve(file_path, wd)
        dst == Resolve(PathJoin(target_dir, PathName(file_path)), wd)
        new_destination == Append(ParentOf(dst), RenameWithToken(BaseOf(dst), tok))
    IN  IF Exists(F1, dst)
        THEN IF IsDir(F1, dst) THEN F1
             ELSE IF compute_sha256(F1, src) = compute_sha256(F1, dst)
                  THEN Unlink(F1, src)
                  ELSE ShutilMove(F1, src, new_destination)
        ELSE ShutilMove(F1, src, dst)

\* the filesystem move_file leaves (when hashing a directory raises: after the mkdir)
move_file(F, wd, file_path, target_dir, tok) ==
    LET F1 == Mkdir(F, Resolve(target_dir, wd))
        src == Resolve(file_path, wd)
        dst == Resolve(PathJoin(target_dir, PathName(file_path)), wd)
        new_destination == Append(ParentOf(dst), RenameWithToken(BaseOf(dst), tok))
    IN  IF src = dst THEN F1
        ELSE IF Exists(F1, dst)
             THEN IF IsDir(F1, dst) THEN F1
                  ELSE IF compute_sha256(F1, src) = compute_sha256(F1, dst)
                       THEN Unlink(F1, src)
                       ELSE ShutilMove(F1, src, new_destination)
             ELSE ShutilMove(F1, src, dst)

\* the directory extract_archive unpacks into
extract_target(archive_path, tok) ==
    LET target_dir_base == PathJoin(PathParent(archive_path), Stem(PathName(archive_path)))
    IN  PathJoin(PathParent(target_dir_base), WithToken(PathName(target_dir_base), tok))

\* the one entry an archive of the model holds: d.png, with bytes the archive's bytes fix
PayloadName == <<"d", "png">>

\* extract_archive with the unlink after the try block instead of inside it
extract_archive_unlinking(F, wd, archive_path, tok, outcome, id) ==
    LET src == Resolve(archive_path, wd)
        target_dir == Resolve(extract_target(archive_path, tok), wd)
        F1 == Mkdir(F, target_dir)
        F2 == WriteFile(F1, Append(target_dir, PayloadName),
                        [id |-> id, data |-> F.files[src].data])
    IN  CASE outcome = "fail" -> Unlink(F1, src)
          [] OTHER -> Unlink(F2, src)

\* outcome is the backend's, 7z or unar alike: "ok", "fail" (nothing written),
\* "partial" (written, then failed); an entry already there is replaced
extract_archive(F, wd, archive_path, tok, outcome, id) ==
    LET src == Resolve(archive_path, wd)
        target_dir == Resolve(extract_target(archive_path, tok), wd)
        F1 == Mkdir(F, target_dir)
        F2 == WriteFile(F1, Append(target_dir, PayloadName),
                        [id |-> id, data |-> F.files[src].data])
    IN  CASE outcome = "ok" -> Unlink(F2, src)
          [] outcome = "partial" -> F2
          [] OTHER -> F1

RECURSIVE WalkBottomUp(_, _)
\* os.walk(top, topdown=False) with the loop body of remove_empty_directories
WalkBottomUp(F, top) ==
    LET listed == SubdirNames(F, top)
        RECURSIVE below(_, _)
        below(G, S) ==
            IF S = {} THEN G
            ELSE LET s == CHOOSE x \in S : TRUE
                 IN  below(WalkBottomUp(G, Append(top, s)), S \ {s})
        RECURSIVE body(_, _)
        body(G, S) ==
            IF S = {} THEN G
            ELSE LET s == CHOOSE x \in S : TRUE
                     dir_path == Append(top, s)
                 IN  body(IF IsEmptyDir(G, dir_path) THEN Rmdir(G, dir_path) ELSE G, S \ {s})
    IN  body(below(F, listed), listed)

RECURSIVE WalkTopDown(_, _)
\* the same loop body under os.walk(top, topdown=True)
WalkTopDown(F, top) ==
    LET listed == SubdirNames(F, top)
        RECURSIVE body(_, _)
        body(G, S) ==
            IF S = {} THEN G
            ELSE LET s == CHOOSE x \in S : TRUE
                     dir_path == Append(top, s)
                 IN  body(IF IsEmptyDir(G, dir_path) THEN Rmdir(G, dir_path) ELSE G, S \ {s})
        RECURSIVE below(_, _)
        below(G, S) ==
            IF S = {} THEN G
            ELSE LET s == CHOOSE x \in S : TRUE
                 IN  below(IF IsDir(G, Append(top, s)) THEN WalkTopDown(G, Append(top, s)) ELSE G,
                           S \ {s})
    IN  below(body(F, listed), listed)

remove_empty_directories_topdown(F, d) == IF IsDir(F, d) THEN WalkTopDown(F, d) ELSE F

remove_empty_directories(F, d) == IF IsDir(F, d) THEN WalkBottomUp(F, d) ELSE F

\* the output of `file -b`, a function of the file's bytes
get_file_metadata(data) ==
    CASE data = 1 -> "ASCII text"
      [] data = 2 -> "data"
      [] data = 3 -> "MoPaQ (MPQ) archive, version 1"
      [] data = 4 -> "Apple DiskCopy 4.2 image"
      [] OTHER -> "PNG image data"

\* `marker in metadata`, on the descriptions of the model
Contains(metadata, marker) ==
    \/ marker = "Apple DiskCopy" /\ metadata = "Apple DiskCopy 4.2 image"
    \/ marker = "MoPaQ (MPQ) archive" /\ metadata = "MoPaQ (MPQ) archive, version 1"
    \/ marker = "ascii text" /\ metadata = "ascii text"

\* what process_directory does with a file that has no useful extension
sniff_disposition(metadata) ==
    IF Lower(metadata) = "data" THEN "delete"
    ELSE IF Contains(metadata, "Apple DiskCopy") THEN "delete"
    ELSE IF Contains(metadata, "MoPaQ (MPQ) archive") THEN "unknown-mpq"
    ELSE IF Contains(Lower(metadata), "ascii text") THEN "text"
    ELSE "skip"

\* EXTENSION_MAP.get(ext, Path("./"))
target_for(ext) ==
    IF ext \in DOMAIN EXTENSION_MAP THEN EXTENSION_MAP[ext] ELSE RelPath(<<>>)

\* dirs[:] = [d for d in dirs if root_path / d not in BLACKLISTED_DIRECTORIES]
filter_dirs(rp, names) == {d \in names : PathJoin(rp, d) \notin BLACKLISTED_DIRECTORIES}

\* a walk that lists the subdirectories again after the loop body
descend_dirs_relisted(F, wd, rp, kept) == filter_dirs(rp, SubdirNames(F, Resolve(rp, wd)))

\* the subdirectories os.walk descends into after the loop body: the list it made when
\* it scanned the directory, as the filter left it
descend_dirs(F, wd, rp, kept) == kept

(************************** initial trees ***********************************)
R == Name("r")
W == Name("w")
A == Name("a")

\* how the tool is started: the working directory and the --directory argument
Configs ==
    { [cwd |-> <<R>>, directory |-> RelPath(<<>>)],
      [cwd |-> <<R>>, directory |-> AbsPath(<<R>>)],
      [cwd |-> <<W>>, directory |-> AbsPath(<<R>>)] }

\* the places a file of the walked tree can be at the start: in the walk root,
\* in its subdirectories a and c, or in a/b; with the bytes it can hold there
Slots ==
    << [at |-> <<>>, name |-> <<"x", "scm">>, data |-> {1, 2}],
       [at |-> <<>>, name |-> <<"x", "foo">>, data |-> {1}],
       [at |-> <<>>, name |-> <<"x", "exe">>, data |-> {1}],
       [at |-> <<>>, name |-> <<"x", "zip">>, data |-> {1}],
       [at |-> <<>>, name |-> <<"x">>, data |-> {1, 2, 3, 4, 5}],
       [at |-> <<A>>, name |-> <<"x", "foo">>, data |-> {1, 2}],
       [at |-> <<A>>, name |-> <<"x", "SCM", "bak">>, data |-> {1}],
       [at |-> <<A, Name("b")>>, name |-> <<"x", "exe">>, data |-> {1}],
       [at |-> <<Name("c")>>, name |-> <<"x", "exe">>, data |-> {1}] >>

\* what earlier use left in the category directory scm of the working directory
Presorted ==
    { <<>>,
      << [name |-> <<"x", "scm">>, data |-> 1] >>,
      << [name |-> <<"x", "scm">>, data |-> 1], [name |-> <<"x_t1", "scm">>, data |-> 3] >> }

SlotPath(c, i) == Resolve(c.directory, c.cwd) \o Slots[i].at \o <<Slots[i].name>>
PresortedPath(c, old, j) == c.cwd \o <<Name("scm"), old[j].name>>

InitialTree(c, S, dat, old) ==
    LET tree == {SlotPath(c, i) : i \in S}
        cat == {PresortedPath(c, old, j) : j \in 1..Len(old)}
    IN  [dirs |-> UNION ({Prefixes(ParentOf(p)) : p \in tree \cup cat}
                         \cup {Prefixes(c.cwd), Prefixes(Resolve(c.directory, c.cwd))}),
         files |-> [p \in tree \cup cat |->
                      IF p \in tree
                      THEN LET i == CHOOSE k \in S : SlotPath(c, k) = p
                           IN  [id |-> i, data |-> dat[i]]
                      ELSE LET j == CHOOSE k \in 1..Len(old) : PresortedPath(c, old, k) = p
                           IN  [id |-> Len(Slots) + j, data |-> old[j].data]]]

NoEvent == [op |-> "none", src |-> <<>>, id |-> 0, data |-> 0,
            target |-> RelPath(<<>>), how |-> "none", tok |-> "none"]

Init ==
    \E c \in Configs, k \in 1..MaxBudget, S \in SUBSET (1..Len(Slots)), old \in Presorted :
        /\ Cardinality(S) <= MaxFiles
        /\ \E dat \in [S -> 1..5] :
            /\ \A i \in S : dat[i] \in Slots[i].data
            /\ fs = InitialTree(c, S, dat, old)
        /\ cwd = c.cwd
        /\ directory = c.directory
        /\ max_steps = k
        /\ steps = 0
        /\ pc = "idle"
        /\ stack = <<>>
        /\ root_path = c.directory
        /\ dirs = {}
        /\ todo = {}
        /\ runs = 0
        /\ result = "none"
        /\ nextId = Len(Slots) + 3
        /\ fs0 = fs
        /\ counted = {}
        /\ dup = {}
        /\ made = {}
        /\ born = {}
        /\ sorted = {}
        /\ placed = {}
        /\ ev = NoEvent

(************************* process_directory ********************************)
\* a call of process_directory(directory, max_steps): steps = 0, os.walk starts
StartRun ==
    /\ pc = "idle"
    /\ runs < MaxRuns
    /\ runs' = runs + 1
    /\ steps' = 0
    /\ pc' = "walk"
    /\ stack' = <<{directory}>>
    /\ root_path' = directory
    /\ dirs' = {}
    /\ todo' = {}
    /\ result' = "running"
    /\ fs0' = fs
    /\ counted' = {}
    /\ dup' = {}
    /\ made' = {}
    /\ born' = {}
    /\ sorted' = sorted \cup placed
    /\ placed' = {}
    /\ ev' = NoEvent
    /\ UNCHANGED <<fs, cwd, directory, max_steps, nextId>>

\* the stack without p in its innermost frame
Popped(p) ==
    LET n == Len(stack)
        frame == stack[n] \ {p}
    IN  IF frame = {} THEN SubSeq(stack, 1, n - 1) ELSE [stack EXCEPT ![n] = frame]

\* os.walk yields the next directory: it lists it, and the loop body filters dirs;
\* a directory it cannot list is passed over (onerror is None)
ScanDir ==
    /\ pc = "walk"
    /\ stack /= <<>>
    /\ \E p \in stack[Len(stack)] :
        /\ stack' = Popped(p)
        /\ IF IsDir(fs, Resolve(p, cwd))
           THEN /\ root_path' = p
                /\ dirs' = filter_dirs(p, SubdirNames(fs, Resolve(p, cwd)))
                /\ todo' = FileNames(fs, Resolve(p, cwd))
                /\ pc' = "files"
           ELSE UNCHANGED <<root_path, dirs, todo, pc>>
    /\ UNCHANGED <<fs, cwd, directory, max_steps, steps, runs, result, nextId, fs0,
                   counted, dup, made, born, sorted, placed>>
    /\ ev' = NoEvent

\* the loop over files is done: os.walk takes the kept subdirectories
EndDir ==
    /\ pc = "files"
    /\ todo = {}
    /\ LET down == {PathJoin(root_path, d) : d \in descend_dirs(fs, cwd, root_path, dirs)}
       IN  stack' = IF down = {} THEN stack ELSE Append(stack, down)
    /\ dirs' = {}
    /\ pc' = "walk"
    /\ UNCHANGED <<fs, cwd, directory, max_steps, steps, todo, root_path, runs, result,
                   nextId, fs0, counted, dup, made, born, sorted, placed>>
    /\ ev' = NoEvent

\* steps += 1; if steps > max_steps: return
BudgetExceeded ==
    /\ pc = "files"
    /\ todo /= {}
    /\ steps + 1 > max_steps
    /\ steps' = steps + 1
    /\ pc' = "idle"
    /\ result' = "exhausted"
    /\ stack' = <<>>
    /\ dirs' = {}
    /\ todo' = {}
    /\ root_path' = directory
    /\ UNCHANGED <<fs, cwd, directory, max_steps, runs, nextId, fs0, counted, dup,
                   made, born, sorted, placed>>
    /\ ev' = NoEvent

\* what every visit within the budget does to the counter and the history
Count(name) ==
    LET id == fs.files[Resolve(PathJoin(root_path, name), cwd)].id
    IN  /\ steps + 1 <= max_steps
        /\ steps' = steps + 1
        /\ todo' = todo \ {name}
        /\ counted' = counted \cup {id}
        /\ dup' = dup \cup ({id} \cap counted)

Event(op, name, target, how, tok) ==
    LET src == Resolve(PathJoin(root_path, name), cwd)
    IN  [op |-> op, src |-> src, id |-> fs.files[src].id, data |-> fs.files[src].data,
         target |-> target, how |-> how, tok |-> tok]

\* suffix in ARCHIVE_EXTENSIONS: extract_archive(file_path, parent / stem); continue
ExtractArchive ==
    /\ pc = "files"
    /\ \E name \in todo, tok \in Tokens, outcome \in {"ok", "partial", "fail"} :
        LET file_path == PathJoin(root_path, name)
            target_dir == Resolve(extract_target(file_path, tok), cwd)
            fresh == ~IsDir(fs, target_dir) \/ target_dir \in made
        IN  /\ Lower(Suffix(name)) \in ARCHIVE_EXTENSIONS
            /\ Count(name)
            /\ fs' = extract_archive(fs, cwd, file_path, tok, outcome, nextId)
            /\ nextId' = IF outcome = "fail" THEN nextId ELSE nextId + 1
            /\ made' = IF fresh THEN made \cup {target_dir} ELSE made
            /\ born' = IF fresh /\ outcome /= "fail" THEN born \cup {nextId} ELSE born
            /\ ev' = Event("extract", name, AbsPath(target_dir), outcome, tok)
    /\ UNCHANGED <<cwd, directory, max_steps, pc, stack, root_path, dirs, runs, result,
                   fs0, sorted, placed>>

\* suffix in DELETE_FILETYPES: unlink; continue
DeleteOnSight ==
    /\ pc = "files"
    /\ \E name \in todo :
        /\ Lower(Suffix(name)) \notin ARCHIVE_EXTENSIONS
        /\ Lower(Suffix(name)) \in DELETE_FILETYPES
        /\ Count(name)
        /\ fs' = Unlink(fs, Resolve(PathJoin(root_path, name), cwd))
        /\ ev' = Event("delete", name, RelPath(<<>>), "deleted", "none")
    /\ UNCHANGED <<cwd, directory, max_steps, pc, stack, root_path, dirs, runs, result,
                   nextId, fs0, made, born, sorted, placed>>

\* a call of move_file from the loop body, and what follows it
Dispatch(op, name, target_dir, tok) ==
    LET file_path == PathJoin(root_path, name)
        how == move_branch(fs, cwd, file_path, target_dir)
    IN  /\ Count(name)
        /\ fs' = move_file(fs, cwd, file_path, target_dir, tok)
        /\ ev' = Event(op, name, target_dir, how, tok)
        /\ placed' = IF target_dir \in BLACKLISTED_DIRECTORIES /\ how \in {"moved", "renamed"}
                     THEN placed \cup {fs.files[Resolve(file_path, cwd)].id} ELSE placed
        /\ IF how = "raised"
           THEN /\ pc' = "idle"
                /\ result' = "raised"
                /\ stack' = <<>>
                /\ dirs' = {}
           ELSE UNCHANGED <<pc, result, stack, dirs>>

\* no useful extension: the file's description decides
SniffedDispatch ==
    /\ pc = "files"
    /\ \E name \in todo, tok \in Tokens :
        LET src == Resolve(PathJoin(root_path, name), cwd)
            disposition == sniff_disposition(get_file_metadata(fs.files[src].data))
        IN  /\ Lower(Suffix(name)) \notin ARCHIVE_EXTENSIONS \cup DELETE_FILETYPES
            /\ get_useful_extension(name) = ""
            /\ CASE disposition = "delete" ->
                      /\ Count(name)
                      /\ fs' = Unlink(fs, src)
                      /\ ev' = Event("sniff", name, RelPath(<<>>), "deleted", "none")
                      /\ UNCHANGED <<pc, result, stack, dirs, placed>>
                 [] disposition = "skip" ->
                      /\ Count(name)
                      /\ ev' = Event("sniff", name, RelPath(<<>>), "unclassified", "none")
                      /\ UNCHANGED <<fs, pc, result, stack, dirs, placed>>
                 [] OTHER ->
                      Dispatch("sniff", name, RelPath(<<Name(disposition)>>), tok)
    /\ UNCHANGED <<cwd, directory, max_steps, root_path, runs, nextId, fs0, made, born,
                   sorted>>

\* target_dir = EXTENSION_MAP.get(ext, Path("./")); move_file(file_path, target_dir)
MoveByExtension ==
    /\ pc = "files"
    /\ \E name \in todo, tok \in Tokens :
        /\ Lower(Suffix(name)) \notin ARCHIVE_EXTENSIONS \cup DELETE_FILETYPES
        /\ get_useful_extension(name) /= ""
        /\ Dispatch("move", name, target_for(get_useful_extension(name)), tok)
    /\ UNCHANGED <<cwd, directory, max_steps, root_path, runs, nextId, fs0, made, born,
                   sorted>>

\* the walk is over: remove_empty_directories(directory), then the root if it is
\* empty; iterdir() of a root that is not there raises
Prune ==
    /\ pc = "walk"
    /\ stack = <<>>
    /\ LET top == Resolve(directory, cwd)
           F1 == remove_empty_directories(fs, top)
       IN  IF ~IsDir(F1, top)
           THEN fs' = F1 /\ result' = "raised"
           ELSE /\ fs' = IF IsEmptyDir(F1, top) THEN Rmdir(F1, top) ELSE F1
                /\ result' = "completed"
    /\ pc' = "idle"
    /\ UNCHANGED <<cwd, directory, max_steps, steps, stack, root_path, dirs, todo, runs,
                   nextId, fs0, counted, dup, made, born, sorted, placed>>
    /\ ev' = NoEvent

Next ==
    \/ StartRun
    \/ ScanDir
    \/ BudgetExceeded
    \/ ExtractArchive
    \/ DeleteOnSight
    \/ SniffedDispatch
    \/ MoveByExtension
    \/ EndDir
    \/ Prune

Spec == Init /\ [][Next]_vars

(***************************** the claims ***********************************)
Top == Resolve(directory, cwd)
\* this step visited a file within the budget and did op to it
Visit(ops) == steps' = steps + 1 /\ result' /= "exhausted" /\ ev'.op \in ops
MoveCall == Visit({"move", "sniff"}) /\ ev'.how \in {"skipped", "deduplicated", "renamed", "moved"}
Ids(F) == {F.files[p].id : p \in DOMAIN F.files}
Contents(F) == {F.files[p].data : p \in DOMAIN F.files}
Returned == pc = "idle" /\ result \in {"exhausted", "completed"}
\* under a category directory of the working directory
Protected(p) == \E c \in BLACKLISTED_DIRECTORIES : IsUnder(p, cwd \o c.parts)
\* the files of the tree a walk is meant to reach
TreeFiles(F) == {p \in DOMAIN F.files : IsUnder(p, Top) /\ ~Protected(p)}
\* whether the loop body would extract, delete or move the file at p
NeedsAction(F, p) ==
    LET name == BaseOf(p)
        ext == get_useful_extension(name)
        disposition == sniff_disposition(get_file_metadata(F.files[p].data))
    IN  \/ Lower(Suffix(name)) \in ARCHIVE_EXTENSIONS \cup DELETE_FILETYPES
        \/ ext = "" /\ disposition = "delete"
        \/ ext = "" /\ disposition \notin {"delete", "skip"}
                    /\ ParentOf(p) /= cwd \o <<Name(disposition)>>
        \/ ext /= "" /\ ParentOf(p) /= Resolve(target_for(ext), cwd)
Work(F) == Cardinality({p \in DOMAIN F.files : IsUnder(p, Top) /\ NeedsAction(F, p)})

\* C1: a move_file call whose destination name is taken by a file with other
\* content leaves every other file as it was, at its path, and the source under
\* a name that was free before.
C1_NoSilentOverwrite ==
    [][(MoveCall /\ ev'.how = "renamed") =>
         /\ \A p \in DOMAIN fs.files \ {ev'.src} :
               p \in DOMAIN fs'.files /\ fs'.files[p] = fs.files[p]
         /\ \E q \in DOMAIN fs'.files \ DOMAIN fs.files : fs'.files[q].id = ev'.id]_vars

\* C2: move_file deletes its source only when another file with the same
\* fingerprint is at target_dir / name, and no content on disk before a call
\* is gone after it.
C2_DedupCorrectness ==
    [][MoveCall =>
         /\ ev'.id \notin Ids(fs') =>
               LET dst == Resolve(PathJoin(ev'.target, BaseOf(ev'.src)), cwd)
               IN  dst /= ev'.src /\ IsFile(fs, dst) /\ fs.files[dst].data = ev'.data
         /\ Contents(fs) \subseteq Contents(fs')]_vars

\* C3: no file is counted twice in a run; a run over N files with a budget
\* k < N counts exactly k of them and leaves the others as they were; a run
\* with k >= N counts them all.
C3_BudgetMonotonicity ==
    /\ dup = {}
    /\ Returned =>
         LET N == Cardinality(TreeFiles(fs0))
         IN  /\ max_steps < N =>
                  /\ Cardinality(counted) = max_steps
                  /\ \A p \in TreeFiles(fs0) :
                        fs0.files[p].id \notin counted =>
                            p \in DOMAIN fs.files /\ fs.files[p] = fs0.files[p]
             /\ max_steps >= N => {fs0.files[p].id : p \in TreeFiles(fs0)} \subseteq counted

\* C4: a file an earlier run moved into a category directory is never visited
\* by a later run, and the walk never lists the directory it is in.
C4_ProtectedNonDescent ==
    /\ counted \cap sorted = {}
    /\ pc = "files" =>
          \A p \in DOMAIN fs.files :
              ParentOf(p) = Resolve(root_path, cwd) => fs.files[p].id \notin sorted

\* a directory at or under the walk root that held files when the run started
\* and is still there, empty
LeftEmpty(d) ==
    /\ d = Top \/ IsUnder(d, Top)
    /\ d \in fs0.dirs /\ FileNames(fs0, d) /= {}
    /\ d \in fs.dirs /\ IsEmptyDir(fs, d)

C6_PlacementUnderRoot ==
    [][(MoveCall /\ ev'.target \in BLACKLISTED_DIRECTORIES) =>
         \E p \in DOMAIN fs'.files :
             /\ ParentOf(p) = Top \o ev'.target.parts
             /\ fs'.files[p].data = ev'.data]_vars

\* C7: extract_archive removes the archive exactly when the backend succeeded;
\* when it failed the archive is at its path with its content, nothing is
\* raised, and the loop goes on with the rest of the listing.
C7_ExtractionNeverFatal ==
    [][Visit({"extract"}) =>
         /\ IsFile(fs', ev'.src) <=> ev'.how /= "ok"
         /\ ev'.how /= "ok" => fs'.files[ev'.src] = fs.files[ev'.src]
         /\ pc' = "files" /\ result' = "running"
         /\ todo' = todo \ {BaseOf(ev'.src)}
         /\ stack' = stack /\ dirs' = dirs]_vars

\* a failed extraction left the archive in place, with files still to visit
C7_Witness ==
    /\ ev.op = "extract" /\ ev.how \in {"fail", "partial"}
    /\ IsFile(fs, ev.src) /\ fs.files[ev.src].id = ev.id
    /\ pc = "files" /\ todo /= {}

\* C8 as stated: the dispatch of a file whose useful extension is not in the
\* table changes nothing on disk, wherever the file is.
C8_UnrecognizedLeftInPlace ==
    [][(Visit({"move"}) /\ ev'.target = RelPath(<<>>)) => fs' = fs]_vars

\* C8 as amended: the dispatch of such a file changes nothing on disk when the
\* file lies directly in the working directory.
C8_UnrecognizedInCwdLeftInPlace ==
    [][(Visit({"move"}) /\ ev'.target = RelPath(<<>>) /\ ParentOf(ev'.src) = cwd) =>
          fs' = fs /\ ev'.how = "skipped"]_vars

\* a file with an unrecognized extension, directly in the working directory,
\* was dispatched and is where it was
C8_Witness ==
    /\ ev.op = "move" /\ ev.target = RelPath(<<>>) /\ ParentOf(ev.src) = cwd
    /\ get_useful_extension(BaseOf(ev.src)) \notin DOMAIN EXTENSION_MAP
    /\ IsFile(fs, ev.src) /\ fs.files[ev.src].id = ev.id

\* C9: the directories extract_archive created in the current run are not
\* walked in it, and the files extracted into them are not counted in it and
\* stay where they were extracted.
C9_ExtractedNotRevisited ==
    /\ counted \cap born = {}
    /\ pc = "files" => Resolve(root_path, cwd) \notin made
    /\ \A i \in 1..Len(stack) : \A p \in stack[i] : Resolve(p, cwd) \notin made
    /\ \A id \in born : \E p \in DOMAIN fs.files : fs.files[p].id = id /\ ParentOf(p) \in made

\* a run that extracted an archive has completed, and the extracted d.png is
\* in the new directory
C9_Witness ==
    /\ pc = "idle" /\ result = "completed"
    /\ \E p \in DOMAIN fs.files :
          fs.files[p].id \in born /\ BaseOf(p) = PayloadName /\ ParentOf(p) \in made

\* C10: a run that stops on budget exhaustion leaves strictly fewer files that
\* still require an extract, a delete or a move than it found.
C10_ProgressPerRun == (pc = "idle" /\ result = "exhausted") => Work(fs) < Work(fs0)

====
